---- MODULE Spec2Model ----
(***************************************************************************)
(* Model of the drone flight controller: class DroneCalibrated             *)
(* (src/drone_flight_options.py) and the flight patterns built on it       *)
(* (src/drone_flight_patt1.py).                                            *)
(*                                                                         *)
(* Lengths are integers on a grid (one unit = one grid step), times are    *)
(* integer clock ticks.  Ratios of lengths (the calibration factors, the   *)
(* completion fraction) are exact rationals <<num, den>> with den > 0.     *)
(***************************************************************************)
EXTENDS Integers, Sequences, FiniteSets, TLC

VARIABLES
    paired, takeoff, calibrated,      \* DroneCalibrated flags
    cal,                              \* the eight scale factors, in get_drone_cal order
    sink,                             \* Motion Sink: commands the vehicle has been sent
    vm,                               \* frame of send_abs_pos_verif
    hv,                               \* frame of hover_w_del
    mcf,                              \* frame of move_cal
    lf,                               \* frame of drone_land
    pat,                              \* frame of the flight pattern
    airspace,                         \* the positions telemetry can report
    write_datafile,                   \* DroneCalibrated.write_datafile
    file_writer,                      \* the csv writer: the rows it has been handed
    sp,                               \* frame of send_abs_pos_w_output
    prog,                             \* position of the calling program
    selected,                         \* main's local: the option read last
    err,                              \* the exception that ended the program, if any
    msg                               \* the last line printed to the console

vars == <<paired, takeoff, calibrated, cal, sink, vm, hv, mcf, pat, airspace,
          write_datafile, file_writer, sp, prog, selected, err, msg, lf>>

----------------------------------------------------------------------------
(* Bounds of the model *)

MaxCoord == 1          \* telemetry and targets lie on the grid 0..MaxCoord per axis
MaxDelay == 2          \* largest min_delay, in clock ticks
MaxDt == 2             \* most clock ticks one loop iteration takes
MaxIter == 2           \* iteration counters saturate here
MaxCmds == 3           \* the command counter saturates here
MaxY == 3              \* calibration reads the forward axis on the grid 0..MaxY

Coord == 0..MaxCoord
Positions == Coord \X Coord \X Coord

Abs(a) == IF a < 0 THEN -a ELSE a
Min(a, b) == IF a <= b THEN a ELSE b

----------------------------------------------------------------------------
(* Motion Sink *)

NoSink == [n |-> 0, last |-> <<"none">>]

\* One more command handed to the vehicle.
Issue(s, c) == [n |-> Min(s.n + 1, MaxCmds), last |-> c]

\* The commands of a list, in order.
RECURSIVE IssueAll(_, _)
IssueAll(s, cs) == IF cs = <<>> THEN s ELSE IssueAll(Issue(s, Head(cs)), Tail(cs))

----------------------------------------------------------------------------
(* Log Sink *)

\* file_writer = None: no csv file was opened.
NoWriter == [open |-> FALSE, last |-> <<"none">>]

\* The csv writer after open and the header row.
OpenWriter == [open |-> TRUE, last |-> <<"CoDrone Location vs Time">>]

\* file_writer.writerow(row).  A row is kept by its label and its note; its
\* timestamp and telemetry columns are not.
writerow(w, row) == [w EXCEPT !.last = row]

\* What a get_position_data call that fails hands back: no position.  The
\* unpacking [t, x, y, z] = ... of it raises.
NoTelemetry == <<>>

\* The ways a writerow call can end: it returns (TRUE) or it raises (FALSE).
\* Without write_datafile there is no call.
WriterOutcomes(wd) == IF wd THEN BOOLEAN ELSE {TRUE}

----------------------------------------------------------------------------
(* send_abs_pos_verif *)

Completes == {<<1, 2>>, <<3, 4>>}     \* completion fractions; 0.75 is the default

IdleVM == [pc |-> "idle"]

\* Entry of send_abs_pos_verif: the locals before the while loop.
VerifEntry(s, t, v, d, c) ==
    [pc |-> "loop", start |-> s, target |-> t, vel |-> v, min_delay |-> d,
     complete |-> c, elapsed |-> 0, time_expired |-> FALSE,
     movement_complete |-> FALSE, iteration |-> 0, tel |-> s,
     pattern |-> "Movement", write_note |-> FALSE]

\* The same call with pattern=label.
Labelled(f, label) == [f EXCEPT !.pattern = label]

\* Variant of the deadline test: strictly later than the deadline.
TimeExpired_late(elapsed, min_delay) == elapsed > min_delay

\* time_expired = (time.time() - start_time >= min_delay)
TimeExpired(elapsed, min_delay) == elapsed >= min_delay

\* Variants of the arrival test: strictly more than the fraction; and the
\* progress measured along the direction of the target.
MovementComplete_strict(p, s, t, c) ==
    \A i \in 1..3 : c[2] * Abs(p[i] - s[i]) > c[1] * Abs(t[i] - s[i])
MovementComplete_signed(p, s, t, c) ==
    \A i \in 1..3 :
        c[2] * (p[i] - s[i]) * (IF t[i] < s[i] THEN -1 ELSE 1) >= c[1] * Abs(t[i] - s[i])

\* movement_complete: on every axis |p - s| >= complete * |t - s|
MovementComplete(p, s, t, c) ==
    \A i \in 1..3 : c[2] * Abs(p[i] - s[i]) >= c[1] * Abs(t[i] - s[i])

\* Variants of the loop condition: "and" for "or", the deadline alone, the
\* arrival alone.
WhileCond_and(te, mc) == ~te /\ ~mc
WhileCond_deadline(te, mc) == ~te
WhileCond_arrival(te, mc) == ~mc

\* while not time_expired or not movement_complete
WhileCond(te, mc) == ~te \/ ~mc

\* Variant of the clock: start_time taken anew on every iteration.
Clock_restart(elapsed, dt, min_delay) == Min(dt, min_delay + 1)

\* The clock reading of one iteration; readings past the deadline are all alike.
Clock(elapsed, dt, min_delay) == Min(elapsed + dt, min_delay + 1)

\* One iteration of the loop with telemetry p read dt ticks after the last check.
VerifBody(f, p, dt) ==
    LET el == Clock(f.elapsed, dt, f.min_delay)
        te == TimeExpired(el, f.min_delay)
        mc == MovementComplete(p, f.start, f.target, f.complete)
    IN [f EXCEPT !.iteration = Min(@ + 1, MaxIter),
                 !.tel = p,
                 !.elapsed = el,
                 !.time_expired = te,
                 !.movement_complete = mc,
                 !.pc = IF WhileCond(te, mc) THEN "loop" ELSE "returned"]

\* Variant of the loop's body: with write_datafile the command is sent twice.
VerifStep_twice(f, s, w, wd, p, dt, ok) ==
    [vm |-> VerifBody(f, p, dt),
     sink |-> IF wd
              THEN Issue(Issue(s, <<"send_absolute_position", f.target, f.vel>>),
                         <<"send_absolute_position", f.target, f.vel>>)
              ELSE Issue(s, <<"send_absolute_position", f.target, f.vel>>),
     file_writer |-> IF wd THEN [w EXCEPT !.last = <<f.pattern>>] ELSE w,
     err |-> "none"]

\* The row of one iteration.
VerifRow(f) ==
    IF f.write_note THEN <<f.pattern, "Notes -- send_abs_pos">> ELSE <<f.pattern>>

\* One pass through the while loop's body: the command, the telemetry read,
\* the row if write_datafile (wd), then the two tests.  ok tells whether
\* writerow returns; when it raises, the tests are not reached.  Nor are they
\* when the telemetry read fails (p = NoTelemetry): nothing catches that.
VerifStep(f, s, w, wd, p, dt, ok) ==
    LET sent == Issue(s, <<"send_absolute_position", f.target, f.vel>>)
    IN IF p = NoTelemetry
       THEN [vm |-> [f EXCEPT !.iteration = Min(@ + 1, MaxIter), !.tel = p,
                              !.pc = "raised"],
             sink |-> sent, file_writer |-> w, err |-> "ValueError"]
       ELSE IF wd /\ ~ok
       THEN [vm |-> [f EXCEPT !.iteration = Min(@ + 1, MaxIter), !.tel = p,
                              !.pc = "raised"],
             sink |-> sent, file_writer |-> w, err |-> "OSError"]
       ELSE [vm |-> VerifBody(f, p, dt),
             sink |-> sent,
             file_writer |-> IF wd THEN writerow(w, VerifRow(f)) ELSE w,
             err |-> "none"]

send_abs_pos_verif ==
    /\ vm.pc = "loop"
    /\ \E p \in airspace, dt \in 1..MaxDt, ok \in WriterOutcomes(write_datafile) :
          \E r \in {VerifStep(vm, sink, file_writer, write_datafile, p, dt, ok)} :
             /\ vm' = r.vm
             /\ sink' = r.sink
             /\ file_writer' = r.file_writer
             /\ err' = r.err
             /\ prog' = IF r.err = "none" THEN prog ELSE "crashed"
    /\ UNCHANGED <<paired, takeoff, calibrated, cal, hv, mcf, msg, pat, airspace, write_datafile, sp, selected, lf>>

----------------------------------------------------------------------------
(* hover_w_del *)

IdleHV == [pc |-> "idle"]
IdleLand == [pc |-> "idle"]
IdleSP == [pc |-> "idle"]

\* Entry of hover_w_del: the locals before the while loop, p0 being the
\* position read once at entry and total = t_hover + t_sleep.
HoverEntry(p0, total) ==
    [pc |-> "loop", pos0 |-> p0, total |-> total, elapsed |-> 0,
     time_expired |-> FALSE, iteration |-> 0, tel |-> p0,
     pattern |-> "Hover", write_note |-> FALSE]

HoverVel == 1          \* 0.1 m/s, in units of 0.1 m/s

\* One iteration of the loop with telemetry p read dt ticks after the last check.
HoverBody(f, p, dt) ==
    LET el == Clock(f.elapsed, dt, f.total)
        te == TimeExpired(el, f.total)
    IN [f EXCEPT !.iteration = Min(@ + 1, MaxIter),
                 !.tel = p,
                 !.elapsed = el,
                 !.time_expired = te,
                 !.pc = IF ~te THEN "loop" ELSE "returned"]

\* The row of one iteration.
HoverRow(f) ==
    IF f.write_note THEN <<f.pattern, "Notes -- hover">> ELSE <<f.pattern>>

\* One pass through the while loop's body: the command, the telemetry read,
\* the row if write_datafile (wd), then the test of the clock.
HoverStep(f, s, w, wd, p, dt, ok) ==
    LET sent == Issue(s, <<"send_absolute_position", f.pos0, HoverVel>>)
    IN IF p = NoTelemetry
       THEN [hv |-> [f EXCEPT !.iteration = Min(@ + 1, MaxIter), !.tel = p,
                              !.pc = "raised"],
             sink |-> sent, file_writer |-> w, err |-> "ValueError"]
       ELSE IF wd /\ ~ok
       THEN [hv |-> [f EXCEPT !.iteration = Min(@ + 1, MaxIter), !.tel = p,
                              !.pc = "raised"],
             sink |-> sent, file_writer |-> w, err |-> "OSError"]
       ELSE [hv |-> HoverBody(f, p, dt),
             sink |-> sent,
             file_writer |-> IF wd THEN writerow(w, HoverRow(f)) ELSE w,
             err |-> "none"]

hover_w_del ==
    /\ hv.pc = "loop"
    /\ \E p \in airspace, dt \in 1..MaxDt, ok \in WriterOutcomes(write_datafile) :
          \E r \in {HoverStep(hv, sink, file_writer, write_datafile, p, dt, ok)} :
             /\ hv' = r.hv
             /\ sink' = r.sink
             /\ file_writer' = r.file_writer
             /\ err' = r.err
             /\ prog' = IF r.err = "none" THEN prog ELSE "crashed"
    /\ UNCHANGED <<paired, takeoff, calibrated, cal, vm, mcf, msg, pat, airspace, write_datafile, sp, selected, lf>>

----------------------------------------------------------------------------
(* Rationals: <<num, den>> with den > 0, in lowest terms *)

RECURSIVE GCD(_, _)
GCD(a, b) == IF b = 0 THEN a ELSE GCD(b, a % b)

Norm(n, d) ==
    LET g == GCD(Abs(n), Abs(d))
        sgn == IF d < 0 THEN -1 ELSE 1
    IN <<sgn * (n \div g), sgn * (d \div g)>>

Zero == <<0, 1>>
One == <<1, 1>>
RatAdd(r, q) == Norm(r[1] * q[2] + q[1] * r[2], r[2] * q[2])
RatDivInt(r, k) == Norm(r[1], r[2] * k)

RECURSIVE RatSum(_)
RatSum(l) == IF l = <<>> THEN Zero ELSE RatAdd(Head(l), RatSum(Tail(l)))

----------------------------------------------------------------------------
(* send_abs_pos_w_output *)

MaxLen == 3            \* the planner's targets lie on the grid 0..MaxLen per axis

PlanTargets == (0..MaxLen) \X (0..MaxLen) \X (0..MaxLen)
PlanVels == {5, 10}    \* 0.5 m/s as in main, and 1.0 m/s, in units of 0.1 m/s

Sq(a) == a * a

\* (x1 - x0)**2 + (y1 - y0)**2 + (z1 - z0)**2
DistSq(s, t) == Sq(t[1] - s[1]) + Sq(t[2] - s[2]) + Sq(t[3] - s[3])

\* num_segments = round((r_total / velocity) / delta_t), r_total being the
\* square root of dsq.  With delta_t = 0.05 s, a grid step of 2 cm and speeds in
\* units of 0.1 m/s the quotient q is 4 * r_total / v, and round(q) is the k
\* with k - 1/2 <= q < k + 1/2, that is (2k - 1)^2 v^2 <= 64 dsq < (2k + 1)^2 v^2.
\* A tie (q = k + 1/2, which round() sends to the even neighbour) needs
\* 64 dsq = (2k + 1)^2 v^2, which no v of PlanVels allows, and every q of the
\* grid is far enough from a tie for the floating-point quotient to round alike.
NumSegments(dsq, v) ==
    CHOOSE k \in 0..(8 * dsq + 1) :
        /\ Sq(2 * k - 1) * Sq(v) <= 64 * dsq \/ k = 0
        /\ 64 * dsq < Sq(2 * k + 1) * Sq(v)

\* Variant: the passes command the end of their segment, not its beginning.
PlanPoint_next(s, t, n, i) ==
    <<Norm(s[1] * n + (i + 1) * (t[1] - s[1]), n),
      Norm(s[2] * n + (i + 1) * (t[2] - s[2]), n),
      Norm(s[3] * n + (i + 1) * (t[3] - s[3]), n)>>

\* x0 + i*delta_x on every axis, delta_x = (x1 - x0)/num_segments.
PlanPoint(s, t, n, i) ==
    <<Norm(s[1] * n + i * (t[1] - s[1]), n),
      Norm(s[2] * n + i * (t[2] - s[2]), n),
      Norm(s[3] * n + i * (t[3] - s[3]), n)>>

\* Entry of send_abs_pos_w_output: the locals before the for loop.  With
\* num_segments = 0 the loop has no pass and the call returns.
PlanEntry(s, t, v) ==
    LET n == NumSegments(DistSq(s, t), v)
    IN [pc |-> IF n = 0 THEN "returned" ELSE "loop", start |-> s, target |-> t,
        velocity |-> v, num_segments |-> n, i |-> 0, pattern |-> "Movement"]

\* One pass of the for loop: the command, then the row if write_datafile (wd).
PlanStep(f, s, w, wd, ok) ==
    LET sent == Issue(s, <<"send_absolute_position",
                           PlanPoint(f.start, f.target, f.num_segments, f.i),
                           f.velocity>>)
    IN IF wd /\ ~ok
       THEN [sp |-> [f EXCEPT !.pc = "raised"],
             sink |-> sent, file_writer |-> w, err |-> "OSError"]
       ELSE [sp |-> [f EXCEPT !.i = @ + 1,
                              !.pc = IF f.i + 1 < f.num_segments
                                     THEN "loop" ELSE "returned"],
             sink |-> sent,
             file_writer |-> IF wd THEN writerow(w, <<f.pattern>>) ELSE w,
             err |-> "none"]

send_abs_pos_w_output ==
    /\ sp.pc = "loop"
    /\ \E ok \in WriterOutcomes(write_datafile) :
          \E r \in {PlanStep(sp, sink, file_writer, write_datafile, ok)} :
             /\ sp' = r.sp
             /\ sink' = r.sink
             /\ file_writer' = r.file_writer
             /\ err' = r.err
             /\ prog' = IF r.err = "none" THEN prog ELSE "crashed"
    /\ UNCHANGED <<paired, takeoff, calibrated, cal, vm, hv, mcf, msg, pat, airspace, write_datafile, selected, lf>>

----------------------------------------------------------------------------
(* DroneCalibrated *)

DefaultCal == [i \in 1..8 |-> One]

\* A method of the object is called: by a client that holds the object
\* ("menu"), or by a case of main's match statement ("case").  Either way the
\* method returns to "menu", which for main is the top of its while loop.
Called == prog \in {"menu", "case"}

\* set_drone_cal: the assignments run in order, and the read of a missing
\* list element raises IndexError, leaving the earlier assignments in place.
set_drone_cal(c, flag, l) ==
    IF Len(l) >= 8
    THEN [cal |-> [i \in 1..8 |-> l[i]], calibrated |-> TRUE, err |-> "none"]
    ELSE [cal |-> [i \in 1..8 |-> IF i <= Len(l) THEN l[i] ELSE c[i]],
          calibrated |-> flag, err |-> "IndexError"]

\* The end of an operation whose last writerow call, if there is one, has the
\* outcome ok: the row is written and the operation goes on to its end, or the
\* exception leaves the operation and, nothing catching it, the program.
Logged(row, ok) ==
    IF write_datafile /\ ~ok
    THEN /\ err' = "OSError"
         /\ prog' = "crashed"
         /\ UNCHANGED file_writer
    ELSE /\ file_writer' = IF write_datafile THEN writerow(file_writer, row)
                                             ELSE file_writer
         /\ prog' = "menu"
         /\ UNCHANGED err

\* Variant of drone_pair: pairing sets the profile back to its defaults.
drone_pair_reset ==
    /\ Called
    /\ sink' = Issue(sink, <<"pair">>)
    /\ paired' = TRUE
    /\ cal' = DefaultCal
    /\ calibrated' = FALSE
    /\ msg' = "Temperature, Battery"
    /\ \E ok \in WriterOutcomes(write_datafile) : Logged(<<"Pairing">>, ok)
    /\ UNCHANGED <<takeoff, vm, hv, mcf, pat, airspace, write_datafile, sp, selected, lf>>

drone_pair ==
    /\ Called
    /\ sink' = Issue(sink, <<"pair">>)
    /\ paired' = TRUE
    /\ msg' = "Temperature, Battery"
    /\ \E ok \in WriterOutcomes(write_datafile) : Logged(<<"Pairing">>, ok)
    /\ UNCHANGED <<takeoff, calibrated, cal, vm, hv, mcf, pat, airspace, write_datafile, sp, selected, lf>>

TakeoffDeltas == {0, 1}    \* delta_z: the default 0.0, and one grid step
TakeoffVel == 2            \* 0.2 m/s, in units of 0.1 m/s
TakeoffDelay == 1          \* 0.5 s, in ticks of 0.5 s
DefaultComplete == <<3, 4>>

\* if not self.paired
TakeoffLegal_always(p) == TRUE
TakeoffLegal_unpaired(p) == ~p
TakeoffLegal(p) == p

\* drone_takeoff up to its call of send_abs_pos_verif.
drone_takeoff ==
    /\ Called
    /\ IF ~TakeoffLegal(paired)
       THEN /\ msg' = "Drone must be paired before takeoff"
            /\ prog' = "menu"
            /\ UNCHANGED <<takeoff, sink, vm>>
       ELSE /\ takeoff' = TRUE
            /\ \E p \in airspace, dz \in TakeoffDeltas :
                  vm' = Labelled(VerifEntry(p, <<p[1], p[2], p[3] + dz>>, TakeoffVel,
                                            TakeoffDelay, DefaultComplete),
                                 "Takeoff")
            /\ sink' = Issue(Issue(sink, <<"set_trim", 0, 0>>), <<"takeoff">>)
            /\ msg' = "Increasing height"
            /\ prog' = "takeoff"
    /\ UNCHANGED <<paired, calibrated, cal, hv, mcf, err, pat, airspace, write_datafile, file_writer, sp, selected, lf>>

\* drone_takeoff after send_abs_pos_verif has returned.
drone_takeoff_rest ==
    /\ prog = "takeoff"
    /\ vm.pc = "returned"
    /\ \E ok \in WriterOutcomes(write_datafile) :
          /\ Logged(<<"Takeoff">>, ok)
          /\ vm' = IdleVM
          /\ sink' = IF write_datafile /\ ~ok THEN sink ELSE Issue(sink, <<"hover", 3>>)
    /\ UNCHANGED <<paired, takeoff, calibrated, cal, hv, mcf, msg, pat, airspace, write_datafile, sp, selected, lf>>

LandHover == 6             \* hover_w_del(2, 1): 3 s, in ticks of 0.5 s

\* for i in range(0, 2): self.drone.land()
LandPasses == 2

\* Variant of the landing loop: it stops after its first pass.
LandMore_once(i) == i < LandPasses - 1

\* The loop of drone_land has another pass to make.
LandMore(i) == i < LandPasses

\* drone_land up to its call of hover_w_del.
drone_land ==
    /\ Called
    /\ \E p \in airspace : hv' = HoverEntry(p, LandHover)
    /\ lf' = [pc |-> "hold", i |-> 0]
    /\ prog' = "land"
    /\ UNCHANGED <<paired, takeoff, calibrated, cal, sink, vm, mcf, err, msg, pat, airspace, write_datafile, file_writer, sp, selected>>

\* drone_land from the return of hover_w_del to the for loop.
drone_land_held ==
    /\ prog = "land"
    /\ lf.pc = "hold"
    /\ hv.pc = "returned"
    /\ hv' = IdleHV
    /\ lf' = [lf EXCEPT !.pc = "for"]
    /\ msg' = "Temperature, Battery"
    /\ UNCHANGED <<paired, takeoff, calibrated, cal, sink, vm, mcf, err, pat, airspace, write_datafile, file_writer, sp, prog, selected>>

\* One pass of the for loop.
drone_land_for ==
    /\ prog = "land"
    /\ lf.pc = "for"
    /\ LandMore(lf.i)
    /\ sink' = Issue(sink, <<"land">>)
    /\ lf' = [lf EXCEPT !.i = @ + 1]
    /\ UNCHANGED <<paired, takeoff, calibrated, cal, vm, hv, mcf, err, msg, pat, airspace, write_datafile, file_writer, sp, prog, selected>>

\* drone_land after the for loop.
drone_land_rest ==
    /\ prog = "land"
    /\ lf.pc = "for"
    /\ ~LandMore(lf.i)
    /\ lf' = IdleLand
    /\ \E ok \in WriterOutcomes(write_datafile) :
          /\ Logged(<<"Landing">>, ok)
          /\ takeoff' = IF write_datafile /\ ~ok THEN takeoff ELSE FALSE
    /\ UNCHANGED <<paired, calibrated, cal, sink, vm, hv, mcf, msg, pat, airspace, write_datafile, sp, selected>>

----------------------------------------------------------------------------
(* move_cal *)

Repeats == 2               \* repeats = 2
PowerLev == 20             \* move_cal(20, 2)
Duration == 2

IdleCal == [pc |-> "idle"]
IdlePat == [name |-> "none"]

\* if not (self.paired and self.takeoff)
CalLegal_paired(p, t) == p
CalLegal(p, t) == p /\ t

\* The vehicle commands of one trial up to the division.
TrialCommands ==
    << <<"set_throttle", 0>>, <<"set_roll", 0>>, <<"set_pitch", PowerLev>>,
       <<"hover", 2>>, <<"move", Duration>>, <<"hover", 2>>,
       <<"set_pitch", -PowerLev>>, <<"move", Duration>>, <<"hover", 2>> >>

\* move_cal from its entry to the for loop.  The frame keeps, beside the
\* locals, the measured displacements of each trial and the profile as it was
\* at entry.
move_cal ==
    /\ Called
    /\ IF ~CalLegal(paired, takeoff)
       THEN /\ msg' = "The drone must be paired, and must have taken off, before calibration."
            /\ prog' = "menu"
            /\ UNCHANGED mcf
       ELSE /\ mcf' = [pc |-> "loop", i |-> 0, pitch_b |-> <<>>,
                       forward |-> <<>>, back |-> <<>>,
                       entry |-> [cal |-> cal, calibrated |-> calibrated]]
            /\ prog' = "cal"
            /\ UNCHANGED msg
    /\ UNCHANGED <<paired, takeoff, calibrated, cal, sink, vm, hv, err, pat, airspace, write_datafile, file_writer, sp, selected, lf>>

Ys == 0..MaxY

\* One pass of the for loop: y0, y1, y2 are the three readings of the forward
\* axis.  A zero delta_y_back raises ZeroDivisionError at the division.
move_cal_trial ==
    /\ prog = "cal"
    /\ mcf.pc = "loop"
    /\ mcf.i < Repeats
    /\ \E y0 \in Ys, y1 \in Ys, y2 \in Ys :
          LET delta_y_forward == y1 - y0
              delta_y_back == y2 - y1
              seen == [mcf EXCEPT !.forward = Append(@, delta_y_forward),
                                  !.back = Append(@, delta_y_back)]
          IN IF delta_y_back = 0
             THEN /\ sink' = IssueAll(sink, TrialCommands)
                  /\ msg' = "Calibration -- moving backward"
                  /\ mcf' = [seen EXCEPT !.pc = "raised"]
                  /\ err' = "ZeroDivisionError"
                  /\ prog' = "crashed"
             ELSE /\ sink' = Issue(IssueAll(sink, TrialCommands), <<"set_pitch", 0>>)
                  /\ mcf' = [seen EXCEPT
                                !.pitch_b = Append(@, Norm(delta_y_forward, delta_y_back)),
                                !.i = @ + 1]
                  /\ msg' = "Forward: Back:"
                  /\ UNCHANGED <<err, prog>>
    /\ UNCHANGED <<paired, takeoff, calibrated, cal, vm, hv, pat, airspace, write_datafile, file_writer, sp, selected, lf>>

\* The list of the first set_drone_cal call: the lists of the disabled axes
\* are empty, and sum([]) / repeats is 0.0.
CalList(pb) ==
    <<One, RatDivInt(RatSum(pb), Repeats), RatDivInt(RatSum(<<>>), Repeats),
      RatDivInt(RatSum(<<>>), Repeats), RatDivInt(RatSum(<<>>), Repeats),
      RatDivInt(RatSum(<<>>), Repeats)>>

\* The list of the second set_drone_cal call.
CalListUnity(pb) ==
    <<One, RatDivInt(RatSum(pb), Repeats), One, One, One, One>>

\* move_cal after the for loop: the two set_drone_cal calls.
move_cal_rest ==
    /\ prog = "cal"
    /\ mcf.pc = "loop"
    /\ mcf.i = Repeats
    /\ LET r1 == set_drone_cal(cal, calibrated, CalList(mcf.pitch_b))
           r2 == set_drone_cal(r1.cal, r1.calibrated, CalListUnity(mcf.pitch_b))
           r == IF r1.err # "none" THEN r1 ELSE r2
       IN /\ cal' = r.cal
          /\ calibrated' = r.calibrated
          /\ err' = r.err
          /\ mcf' = [mcf EXCEPT !.pc = IF r.err = "none" THEN "returned" ELSE "raised"]
          /\ prog' = IF r.err = "none" THEN "menu" ELSE "crashed"
    /\ msg' = "Calibration Scale Factors:"
    /\ UNCHANGED <<paired, takeoff, sink, vm, hv, pat, airspace, write_datafile, file_writer, sp, selected, lf>>

----------------------------------------------------------------------------
(* A DroneCalibrated object driven through any sequence of its operations,
   without a csv file.  An exception no caller catches ends the program. *)

Init ==
    /\ paired = FALSE
    /\ takeoff = FALSE
    /\ calibrated = FALSE
    /\ cal = DefaultCal
    /\ sink = NoSink
    /\ vm = IdleVM
    /\ hv = IdleHV
    /\ mcf = IdleCal
    /\ pat = IdlePat
    /\ airspace = Positions
    /\ prog = "menu"
    /\ err = "none"
    /\ write_datafile = FALSE
    /\ file_writer = NoWriter
    /\ sp = IdleSP
    /\ msg = "none"
    /\ selected = 0
    /\ lf = IdleLand

Next ==
    \/ drone_pair
    \/ drone_takeoff
    \/ drone_takeoff_rest
    \/ drone_land
    \/ drone_land_held
    \/ drone_land_for
    \/ drone_land_rest
    \/ move_cal
    \/ move_cal_trial
    \/ move_cal_rest
    \/ send_abs_pos_verif
    \/ hover_w_del

Spec == Init /\ [][Next]_vars

----------------------------------------------------------------------------
(* mov_xyz_abs and move_xyz_simple *)

XyzVel == 5                \* velocity = 0.5 m/s, in units of 0.1 m/s
XyzRepeats == 2            \* repeats = 2
XyzLims == {1}             \* movement_lim, dist: one grid step

\* The calls of one pass of mov_xyz_abs, each a pair <<start, target>> of
\* offsets from (x0, y0, z0): along Z, along Y, along X.
XyzAbsLegs(d) ==
    << <<(<<0, 0, 0>>), (<<0, 0, d>>)>>, <<(<<0, 0, d>>), (<<0, 0, -d>>)>>,
       <<(<<0, 0, -d>>), (<<0, 0, 0>>)>>,
       <<(<<0, 0, 0>>), (<<0, d, 0>>)>>, <<(<<0, d, 0>>), (<<0, -d, 0>>)>>,
       <<(<<0, -d, 0>>), (<<0, 0, 0>>)>>,
       <<(<<0, 0, 0>>), (<<d, 0, 0>>)>>, <<(<<d, 0, 0>>), (<<-d, 0, 0>>)>>,
       <<(<<-d, 0, 0>>), (<<0, 0, 0>>)>> >>

\* drone.hover(1) follows the first two calls of each axis, not the third.
XyzAbsHover(j) == j % 3 # 0

\* The send_abs_pos_w_output call of leg j.
XyzAbsCall(f, j) ==
    Labelled(PlanEntry(<<f.ref[1] + f.cycle[j][1][1], f.ref[2] + f.cycle[j][1][2],
                         f.ref[3] + f.cycle[j][1][3]>>,
                       <<f.ref[1] + f.cycle[j][2][1], f.ref[2] + f.cycle[j][2][2],
                         f.ref[3] + f.cycle[j][2][3]>>, f.vel), f.pattern)

\* mov_xyz_abs up to its first send_abs_pos_w_output call.
mov_xyz_abs ==
    /\ Called
    /\ \E ref \in airspace, lim \in XyzLims :
          \E f \in {[name |-> "mov_xyz_abs", pattern |-> "XYZ_abs", ref |-> ref,
                      cycle |-> XyzAbsLegs(lim), vel |-> XyzVel, i |-> 0, leg |-> 1]} :
             /\ pat' = f
             /\ sp' = XyzAbsCall(f, 1)
    /\ prog' = "xyz_abs"
    /\ UNCHANGED <<paired, takeoff, calibrated, cal, sink, vm, hv, mcf, airspace,
                   write_datafile, file_writer, err, msg, selected, lf>>

\* From the return of one send_abs_pos_w_output call to the next call.
xyz_abs_leg ==
    /\ prog = "xyz_abs"
    /\ sp.pc = "returned"
    /\ pat.leg < Len(pat.cycle) \/ pat.i + 1 < XyzRepeats
    /\ sink' = IF XyzAbsHover(pat.leg) THEN Issue(sink, <<"hover", 1>>) ELSE sink
    /\ LET j == IF pat.leg < Len(pat.cycle) THEN pat.leg + 1 ELSE 1
       IN /\ sp' = XyzAbsCall(pat, j)
          /\ pat' = [pat EXCEPT !.leg = j, !.i = IF j = 1 THEN @ + 1 ELSE @]
    /\ UNCHANGED <<paired, takeoff, calibrated, cal, vm, hv, mcf, airspace,
                   write_datafile, file_writer, prog, err, msg, selected, lf>>

\* The last call of the last pass has returned: mov_xyz_abs returns.
xyz_abs_return ==
    /\ prog = "xyz_abs"
    /\ sp.pc = "returned"
    /\ pat.leg = Len(pat.cycle)
    /\ pat.i + 1 = XyzRepeats
    /\ sp' = IdleSP
    /\ pat' = IdlePat
    /\ prog' = "menu"
    /\ UNCHANGED <<paired, takeoff, calibrated, cal, sink, vm, hv, mcf, airspace,
                   write_datafile, file_writer, err, msg, selected, lf>>

\* The targets of one pass of move_xyz_simple, as offsets from (x0, y0, z0),
\* and the line printed before each.
XyzSimpleTargets(d) ==
    << <<d, 0, 0>>, <<-d, 0, 0>>, <<0, 0, 0>>, <<0, d, 0>>, <<0, -d, 0>>, <<0, 0, 0>>,
       <<0, 0, d>>, <<0, 0, -d>>, <<0, 0, 0>> >>

XyzSimpleSays ==
    <<"Moving forward", "Moving backward", "Returning to center",
      "Moving left", "Moving right", "Returning to center",
      "Moving up", "Moving down", "Returning to center">>

\* output_position: one row, if write_datafile (wd).
output_position(w, wd, pattern, ok) ==
    IF wd /\ ~ok
    THEN [file_writer |-> w, err |-> "OSError"]
    ELSE [file_writer |-> IF wd THEN writerow(w, <<pattern>>) ELSE w, err |-> "none"]

\* move_xyz_simple up to its for loop.
move_xyz_simple ==
    /\ Called
    /\ \E ref \in airspace, dist \in XyzLims :
          pat' = [name |-> "move_xyz_simple", pattern |-> "XYZ_simple", ref |-> ref,
                  targets |-> XyzSimpleTargets(dist), vel |-> XyzVel, i |-> 0, leg |-> 0]
    /\ \E ok \in WriterOutcomes(write_datafile) :
          \E r \in {output_position(file_writer, write_datafile, "XYZ_simple", ok)} :
             /\ file_writer' = r.file_writer
             /\ err' = r.err
             /\ prog' = IF r.err = "none" THEN "xyz_simple" ELSE "crashed"
    /\ UNCHANGED <<paired, takeoff, calibrated, cal, sink, vm, hv, mcf, airspace,
                   write_datafile, sp, msg, selected, lf>>

\* One command of move_xyz_simple with its sleep and its output_position;
\* after the last one of the last pass the method returns.
xyz_simple_leg ==
    /\ prog = "xyz_simple"
    /\ LET j == pat.leg + 1
           last == j = Len(pat.targets)
           over == last /\ pat.i + 1 = XyzRepeats
       IN /\ msg' = XyzSimpleSays[j]
          /\ sink' = Issue(sink, <<"send_absolute_position",
                                   <<pat.ref[1] + pat.targets[j][1],
                                     pat.ref[2] + pat.targets[j][2],
                                     pat.ref[3] + pat.targets[j][3]>>, pat.vel>>)
          /\ \E ok \in WriterOutcomes(write_datafile) :
                \E r \in {output_position(file_writer, write_datafile, pat.pattern, ok)} :
                   /\ file_writer' = r.file_writer
                   /\ err' = r.err
                   /\ prog' = IF r.err # "none" THEN "crashed"
                              ELSE IF over THEN "menu" ELSE "xyz_simple"
                   /\ pat' = IF r.err = "none" /\ over THEN IdlePat
                             ELSE [pat EXCEPT !.leg = IF last THEN 0 ELSE j,
                                              !.i = IF last THEN @ + 1 ELSE @]
    /\ UNCHANGED <<paired, takeoff, calibrated, cal, vm, hv, mcf, airspace,
                   write_datafile, sp, selected, lf>>

----------------------------------------------------------------------------
(* main of drone_flight_options.py: the menu loop *)

\* What the user may type at the prompt: a digit.  0 and 8 stand for every
\* entry that option_select turns down.
Entries == 0..8

\* option_select, one prompt: the option, or 0 for an entry turned down.
Option(e) == IF 1 <= e /\ e <= 7 THEN e ELSE 0

\* The positions of a yard: on the ground, at a height of 4 grid steps, and
\* one step from there along Y and along X.
MainYard == {<<0, 0, 0>>, <<0, 0, 4>>, <<0, 1, 4>>, <<1, 0, 4>>}

\* main after the DroneCalibrated object is made, without '-f'.
InitMain ==
    /\ paired = FALSE
    /\ takeoff = FALSE
    /\ calibrated = FALSE
    /\ cal = DefaultCal
    /\ sink = NoSink
    /\ vm = IdleVM
    /\ hv = IdleHV
    /\ mcf = IdleCal
    /\ pat = IdlePat
    /\ airspace = MainYard
    /\ prog = "start"
    /\ err = "none"
    /\ write_datafile = FALSE
    /\ file_writer = NoWriter
    /\ sp = IdleSP
    /\ msg = "none"
    /\ selected = 0
    /\ lf = IdleLand

\* selected = option_select() before the loop, and the first test of the
\* while statement.  An entry turned down is asked for again.
main_start ==
    /\ prog = "start"
    /\ \E e \in Entries :
          IF Option(e) = 0
          THEN /\ msg' = "Please enter a single digit 1 - 7"
               /\ UNCHANGED <<selected, prog>>
          ELSE /\ selected' = Option(e)
               /\ prog' = IF Option(e) # 7 THEN "menu" ELSE "exit"
               /\ msg' = "Select option (1 - 7): "
    /\ UNCHANGED <<paired, takeoff, calibrated, cal, sink, vm, hv, mcf, pat, airspace,
                   write_datafile, file_writer, sp, err, lf>>

\* The top of the loop's body: selected = option_select(), and the match
\* statement up to the case it takes; case _ is break.
main_prompt ==
    /\ prog = "menu"
    /\ \E e \in Entries :
          IF Option(e) = 0
          THEN /\ msg' = "Please enter a single digit 1 - 7"
               /\ UNCHANGED <<selected, prog>>
          ELSE /\ selected' = Option(e)
               /\ prog' = IF Option(e) \in 1..6 THEN "case" ELSE "exit"
               /\ msg' = "Select option (1 - 7): "
    /\ UNCHANGED <<paired, takeoff, calibrated, cal, sink, vm, hv, mcf, pat, airspace,
                   write_datafile, file_writer, sp, err, lf>>

\* The cases of the match statement.
main_case ==
    /\ prog = "case"
    /\ \/ selected = 1 /\ drone_pair
       \/ selected = 2 /\ drone_takeoff
       \/ selected = 3 /\ move_cal
       \/ selected = 4 /\ mov_xyz_abs
       \/ selected = 5 /\ move_xyz_simple
       \/ selected = 6 /\ drone_land

NextMain ==
    \/ main_start
    \/ main_prompt
    \/ main_case
    \/ drone_takeoff_rest
    \/ drone_land_held
    \/ drone_land_for
    \/ drone_land_rest
    \/ move_cal_trial
    \/ move_cal_rest
    \/ xyz_abs_leg
    \/ xyz_abs_return
    \/ xyz_simple_leg
    \/ send_abs_pos_verif
    \/ hover_w_del
    \/ send_abs_pos_w_output

SpecMain == InitMain /\ [][NextMain]_vars

----------------------------------------------------------------------------
\* Pairing, takeoff and landing in any order, over the positions of a yard.
\* The loops run on one thread that nothing suspends, and a method whose loop
\* has returned goes on.
InitLand ==
    /\ paired = FALSE
    /\ takeoff = FALSE
    /\ calibrated = FALSE
    /\ cal = DefaultCal
    /\ sink = NoSink
    /\ vm = IdleVM
    /\ hv = IdleHV
    /\ mcf = IdleCal
    /\ pat = IdlePat
    /\ airspace = {<<0, 0, 0>>, <<0, 0, 4>>, <<0, 1, 4>>, <<1, 0, 4>>}
    /\ prog = "menu"
    /\ err = "none"
    /\ write_datafile = FALSE
    /\ file_writer = NoWriter
    /\ sp = IdleSP
    /\ msg = "none"
    /\ selected = 0
    /\ lf = IdleLand

NextLand ==
    \/ drone_pair
    \/ drone_takeoff
    \/ drone_takeoff_rest
    \/ drone_land
    \/ drone_land_held
    \/ drone_land_for
    \/ drone_land_rest
    \/ send_abs_pos_verif
    \/ hover_w_del

FairSpecLand ==
    /\ InitLand
    /\ [][NextLand]_vars
    /\ WF_vars(hover_w_del)
    /\ WF_vars(drone_land_held)
    /\ WF_vars(drone_land_for)
    /\ WF_vars(drone_land_rest)

----------------------------------------------------------------------------
(* move_random_xyz and move_random_limits *)

MaxSegs == 2               \* most random segments of one pattern

RandomHover == 4           \* hover_w_del(1.0, t_sleep): 2 s, in ticks of 0.5 s
RandomVel == 5             \* vel = 0.5 m/s, in units of 0.1 m/s
RandomLabel == "Random_Limits"   \* pattern, in both walks
RandomDelays == {0}        \* delay, in ticks: the default 0.0
\* limits = [x_neg, x_pos, y_neg, y_pos, z_neg, z_pos]: as in main, a box
\* that is tight across and wide along the Y axis; and a cube.
RandomLimits == {<<0, 0, -1, 1, 0, 0>>, <<-1, 1, -1, 1, -1, 1>>}
RandomMaxXYZ == {<<0, 1, 1>>}   \* max_xyz
RandomMaxR == {1}               \* max_r

\* The telemetry of a pattern flight stays in the plane x = 0.
Corridor == {p \in Positions : p[1] = 0}

Plus(p, d) == <<p[1] + d[1], p[2] + d[2], p[3] + d[3]>>
Dot(d) == d[1] * d[1] + d[2] * d[2] + d[3] * d[3]

\* random.uniform(-max_xyz[k], max_xyz[k]) on each axis: the grid points.
UniformDeltas(m) == (-m[1]..m[1]) \X (-m[2]..m[2]) \X (-m[3]..m[3])

\* r in [0.5 * max_r, max_r] in any direction (theta, phi): the grid points
\* of the spherical shell.
SphereDeltas(r) ==
    {d \in (-r..r) \X (-r..r) \X (-r..r) : 4 * Dot(d) >= r * r /\ Dot(d) <= r * r}

\* Variant of the sign correction: a displacement that would leave the box is
\* cut at its wall.
SignCorrect_clamp(x, d, lo, hi) ==
    IF x + d < lo THEN lo - x ELSE IF x + d > hi THEN hi - x ELSE d

\* The sign correction of one axis: x the current position, d the sampled
\* displacement, lo = x0 + neg and hi = x0 + pos the limits.
SignCorrect(x, d, lo, hi) ==
    IF x + d < lo THEN Abs(d) ELSE IF x + d > hi THEN -Abs(d) ELSE d

Corrected(p, d, ref, lim) ==
    <<SignCorrect(p[1], d[1], ref[1] + lim[1], ref[1] + lim[2]),
      SignCorrect(p[2], d[2], ref[2] + lim[3], ref[2] + lim[4]),
      SignCorrect(p[3], d[3], ref[3] + lim[5], ref[3] + lim[6])>>

\* Variant of the legs before the random segments: to the right first.
RandomLeg_right_first(ref, lim, k) ==
    LET left == Plus(ref, <<0, lim[4], 0>>)
        right == Plus(ref, <<0, lim[3], 0>>)
    IN IF k = 1 THEN <<ref, right>> ELSE IF k = 2 THEN <<right, left>> ELSE <<left, ref>>

\* Start and target of leg k of the three legs before the random segments:
\* to the left (y0 + y_pos), to the right (y0 + y_neg), back to center.
RandomLeg(ref, lim, k) ==
    LET left == Plus(ref, <<0, lim[4], 0>>)
        right == Plus(ref, <<0, lim[3], 0>>)
    IN IF k = 1 THEN <<ref, left>> ELSE IF k = 2 THEN <<left, right>> ELSE <<right, ref>>

\* Entry of either pattern: the reference position is read, and the first
\* calibration leg (to the left) is handed to send_abs_pos_verif.  sampled is
\* the displacement as drawn, before its signs are corrected; calls lists the
\* calls made so far.
RandomEntry(name, max) ==
    /\ prog = "flight"
    /\ \E ref \in airspace, lim \in RandomLimits, d \in RandomDelays, n \in 1..MaxSegs :
          /\ pat' = [name |-> name, ref |-> ref, limits |-> lim, max |-> max,
                     vel |-> RandomVel, delay |-> d, num_segs |-> n, legs |-> 1, i |-> 0,
                     sampled |-> <<0, 0, 0>>, calls |-> <<"send_abs_pos_verif">>]
          /\ vm' = Labelled(VerifEntry(RandomLeg(ref, lim, 1)[1], RandomLeg(ref, lim, 1)[2],
                                       RandomVel, d, DefaultComplete), RandomLabel)
    /\ prog' = "random"
    /\ UNCHANGED <<paired, takeoff, calibrated, cal, sink, hv, mcf, airspace, write_datafile, file_writer, sp, err, msg, selected, lf>>

move_random_xyz == \E m \in RandomMaxXYZ : RandomEntry("move_random_xyz", m)

move_random_limits == \E r \in RandomMaxR : RandomEntry("move_random_limits", r)

\* The hover_w_del call that follows every send_abs_pos_verif of the patterns.
random_hover ==
    /\ prog = "random"
    /\ vm.pc = "returned"
    /\ vm' = IdleVM
    /\ \E p \in airspace : hv' = Labelled(HoverEntry(p, RandomHover), RandomLabel)
    /\ pat' = [pat EXCEPT !.calls = Append(@, "hover_w_del")]
    /\ UNCHANGED <<paired, takeoff, calibrated, cal, sink, mcf, airspace, write_datafile, file_writer, sp, prog, err, msg, selected, lf>>

\* The second and third calibration legs: to the right, then back to center.
random_calibration ==
    /\ prog = "random"
    /\ hv.pc = "returned"
    /\ pat.legs < 3
    /\ hv' = IdleHV
    /\ pat' = [pat EXCEPT !.legs = @ + 1, !.calls = Append(@, "send_abs_pos_verif")]
    /\ LET leg == RandomLeg(pat.ref, pat.limits, pat.legs + 1)
       IN vm' = Labelled(VerifEntry(leg[1], leg[2], pat.vel, pat.delay, DefaultComplete),
                         RandomLabel)
    /\ UNCHANGED <<paired, takeoff, calibrated, cal, sink, mcf, airspace, write_datafile, file_writer, sp, prog, err, msg, selected, lf>>

\* One pass of the for loop up to its send_abs_pos_verif call: the current
\* position p is read, a displacement d is drawn and its signs corrected.
random_segment ==
    /\ prog = "random"
    /\ hv.pc = "returned"
    /\ pat.legs = 3
    /\ pat.i < pat.num_segs
    /\ hv' = IdleHV
    /\ \E p \in airspace :
         \E d \in IF pat.name = "move_random_xyz"
                  THEN UniformDeltas(pat.max) ELSE SphereDeltas(pat.max) :
            /\ pat' = [pat EXCEPT !.i = @ + 1, !.sampled = d,
                                  !.calls = Append(@, "send_abs_pos_verif")]
            /\ vm' = Labelled(VerifEntry(p, Plus(p, Corrected(p, d, pat.ref, pat.limits)),
                                         pat.vel, pat.delay, DefaultComplete),
                              RandomLabel)
    /\ UNCHANGED <<paired, takeoff, calibrated, cal, sink, mcf, airspace, write_datafile, file_writer, sp, prog, err, msg, selected, lf>>

\* The for loop is over: the pattern returns.
random_return ==
    /\ prog = "random"
    /\ hv.pc = "returned"
    /\ pat.legs = 3
    /\ pat.i = pat.num_segs
    /\ hv' = IdleHV
    /\ pat' = IdlePat
    /\ prog' = "done"
    /\ UNCHANGED <<paired, takeoff, calibrated, cal, sink, vm, mcf, airspace, write_datafile, file_writer, sp, err, msg, selected, lf>>

\* A random walk flown by a paired, airborne vehicle.
InitRandom ==
    /\ paired = TRUE
    /\ takeoff = TRUE
    /\ calibrated = FALSE
    /\ cal = DefaultCal
    /\ sink = NoSink
    /\ vm = IdleVM
    /\ hv = IdleHV
    /\ mcf = IdleCal
    /\ pat = IdlePat
    /\ airspace = Corridor
    /\ prog = "flight"
    /\ err = "none"
    /\ write_datafile = FALSE
    /\ file_writer = NoWriter
    /\ sp = IdleSP
    /\ msg = "none"
    /\ selected = 0
    /\ lf = IdleLand

NextRandom ==
    \/ move_random_xyz
    \/ move_random_limits
    \/ random_hover
    \/ random_calibration
    \/ random_segment
    \/ random_return
    \/ send_abs_pos_verif
    \/ hover_w_del

SpecRandom == InitRandom /\ [][NextRandom]_vars

----------------------------------------------------------------------------
(* move_x_simple, move_y_simple, move_z_simple and move_yz_simple *)

MaxRepeats == 2            \* most cycles of one sweep (repeats = 2 is the default)

SweepHover == 6            \* t_hover + t_sleep = 3 s, in ticks of 0.5 s
SweepVel == 5              \* vel = 0.5 m/s, in units of 0.1 m/s
SweepDelays == {0}         \* delay, in ticks: the default 0.0
SweepDelX == {1}           \* del_x
SweepDelY == {1}           \* del_y
SweepDelZ == {-5, 1, 5}    \* del_z: below, and above, 0.75 * z0; and a negative one

\* The positions the telemetry of a pattern flight reports: on the ground, at
\* a height of 4 grid steps, and one step from there along Y and along X.
Yard == {<<0, 0, 0>>, <<0, 0, 4>>, <<0, 1, 4>>, <<1, 0, 4>>}

\* Variant of the reduction of del_z: none.
ReducedDelZ_none(del_z, z0) == del_z

\* delta_z = del_z if del_z < 0.75 * z0 else 0.75 * z0.  (Every height of
\* Yard is a multiple of 4 grid steps, of which 0.75 is a whole number.)
ReducedDelZ(del_z, z0) == IF 4 * del_z < 3 * z0 THEN del_z ELSE (3 * z0) \div 4

\* The legs of one cycle, each a pair <<start, target>> of offsets from the
\* reference position (x0, y0, z0), in the order of the calls.
LegsX(d) ==
    << <<(<<0, 0, 0>>), (<<d, 0, 0>>)>>, <<(<<d, 0, 0>>), (<<0, 0, 0>>)>>,
       <<(<<0, 0, 0>>), (<<-d, 0, 0>>)>>, <<(<<-d, 0, 0>>), (<<0, 0, 0>>)>> >>

\* Variant: the last leg of the Y sweep goes on to the left end.
LegsY_chained(d) ==
    << <<(<<0, 0, 0>>), (<<0, d, 0>>)>>, <<(<<0, d, 0>>), (<<0, 0, 0>>)>>,
       <<(<<0, 0, 0>>), (<<0, -d, 0>>)>>, <<(<<0, -d, 0>>), (<<0, d, 0>>)>> >>

LegsY(d) ==
    << <<(<<0, 0, 0>>), (<<0, d, 0>>)>>, <<(<<0, d, 0>>), (<<0, 0, 0>>)>>,
       <<(<<0, 0, 0>>), (<<0, -d, 0>>)>>, <<(<<0, -d, 0>>), (<<0, 0, 0>>)>> >>

LegsZ(d) ==
    << <<(<<0, 0, 0>>), (<<0, 0, d>>)>>, <<(<<0, 0, d>>), (<<0, 0, 0>>)>>,
       <<(<<0, 0, 0>>), (<<0, 0, -d>>)>>, <<(<<0, 0, -d>>), (<<0, 0, 0>>)>> >>

LegsYZ(dy, dz) == LegsY(dy) \o LegsZ(dz)

\* Whether hover_w_del follows leg j of a cycle: in move_y_simple after every
\* leg, in the other three after every leg but the last of the cycle.
HoldFollows(name, j, n) == name = "move_y_simple" \/ j < n

\* Variant: the leg starts at the position the telemetry reported last.
SweepCall_live(f, j) ==
    Labelled(VerifEntry(IF vm.pc = "idle" THEN Plus(f.ref, f.cycle[j][1]) ELSE vm.tel,
                        Plus(f.ref, f.cycle[j][2]),
                        f.vel, f.delay, DefaultComplete), f.pattern)

\* The send_abs_pos_verif call of leg j.
SweepCall(f, j) ==
    Labelled(VerifEntry(Plus(f.ref, f.cycle[j][1]), Plus(f.ref, f.cycle[j][2]),
                        f.vel, f.delay, DefaultComplete), f.pattern)

\* Entry of a sweep: the reference position ref is read, the locals are set
\* and the first leg is handed to send_abs_pos_verif.  calls lists the calls
\* made so far.
SweepEntry(name, label, ref, cycle, given, k, d) ==
    LET f == [name |-> name, pattern |-> label, ref |-> ref, cycle |-> cycle,
              given |-> given, vel |-> SweepVel, delay |-> d, repeats |-> k,
              i |-> 0, leg |-> 1, pc |-> "running",
              calls |-> << <<"send_abs_pos_verif", Plus(ref, cycle[1][1]),
                             Plus(ref, cycle[1][2])>> >>]
    IN /\ prog = "flight"
       /\ pat' = f
       /\ vm' = SweepCall(f, 1)
       /\ prog' = "sweep"
       /\ UNCHANGED <<paired, takeoff, calibrated, cal, sink, hv, mcf, airspace,
                      write_datafile, file_writer, sp, err, msg, selected, lf>>

move_x_simple ==
    \E ref \in airspace, del_x \in SweepDelX, k \in 1..MaxRepeats, d \in SweepDelays :
        SweepEntry("move_x_simple", "Simple_X", ref, LegsX(del_x),
                   [del |-> del_x, del_z |-> 0], k, d)

move_y_simple ==
    \E ref \in airspace, del_y \in SweepDelY, k \in 1..MaxRepeats, d \in SweepDelays :
        SweepEntry("move_y_simple", "Simple_Y", ref, LegsY(del_y),
                   [del |-> del_y, del_z |-> 0], k, d)

move_z_simple ==
    \E ref \in airspace, del_z \in SweepDelZ, k \in 1..MaxRepeats, d \in SweepDelays :
        SweepEntry("move_z_simple", "Simple_Z", ref, LegsZ(ReducedDelZ(del_z, ref[3])),
                   [del |-> 0, del_z |-> del_z], k, d)

move_yz_simple ==
    \E ref \in airspace, del_y \in SweepDelY, del_z \in SweepDelZ,
       k \in 1..MaxRepeats, d \in SweepDelays :
        SweepEntry("move_yz_simple", "Simple_YZ", ref,
                   LegsYZ(del_y, ReducedDelZ(del_z, ref[3])),
                   [del |-> del_y, del_z |-> del_z], k, d)

\* The hover_w_del call that follows a leg.
sweep_hover ==
    /\ prog = "sweep"
    /\ vm.pc = "returned"
    /\ HoldFollows(pat.name, pat.leg, Len(pat.cycle))
    /\ vm' = IdleVM
    /\ \E p \in airspace : hv' = Labelled(HoverEntry(p, SweepHover), pat.pattern)
    /\ pat' = [pat EXCEPT !.calls = Append(@, <<"hover_w_del">>)]
    /\ UNCHANGED <<paired, takeoff, calibrated, cal, sink, mcf, airspace,
                   write_datafile, file_writer, sp, prog, err, msg, selected, lf>>

\* The leg is over when its hover_w_del has returned or, no hover_w_del
\* following it, when its send_abs_pos_verif has.
LegOver ==
    \/ hv.pc = "returned"
    \/ vm.pc = "returned" /\ ~HoldFollows(pat.name, pat.leg, Len(pat.cycle))

\* The next leg: of the same cycle, or the first of the next cycle.
sweep_leg ==
    /\ prog = "sweep"
    /\ LegOver
    /\ pat.leg < Len(pat.cycle) \/ pat.i + 1 < pat.repeats
    /\ LET j == IF pat.leg < Len(pat.cycle) THEN pat.leg + 1 ELSE 1
           call == SweepCall(pat, j)
       IN /\ vm' = call
          /\ pat' = [pat EXCEPT !.leg = j,
                                !.i = IF j = 1 THEN @ + 1 ELSE @,
                                !.calls = Append(@, <<"send_abs_pos_verif",
                                                      call.start, call.target>>)]
    /\ hv' = IdleHV
    /\ UNCHANGED <<paired, takeoff, calibrated, cal, sink, mcf, airspace,
                   write_datafile, file_writer, sp, prog, err, msg, selected, lf>>

\* The for loop is over: the sweep returns.
sweep_return ==
    /\ prog = "sweep"
    /\ LegOver
    /\ pat.leg = Len(pat.cycle)
    /\ pat.i + 1 = pat.repeats
    /\ vm' = IdleVM
    /\ hv' = IdleHV
    /\ pat' = [pat EXCEPT !.pc = "returned"]
    /\ prog' = "done"
    /\ UNCHANGED <<paired, takeoff, calibrated, cal, sink, mcf, airspace,
                   write_datafile, file_writer, sp, err, msg, selected, lf>>

\* A pattern flown by a paired, airborne vehicle: a sweep or a random walk.
InitPattern ==
    /\ paired = TRUE
    /\ takeoff = TRUE
    /\ calibrated = FALSE
    /\ cal = DefaultCal
    /\ sink = NoSink
    /\ vm = IdleVM
    /\ hv = IdleHV
    /\ mcf = IdleCal
    /\ pat = IdlePat
    /\ airspace = Yard
    /\ prog = "flight"
    /\ err = "none"
    /\ write_datafile = FALSE
    /\ file_writer = NoWriter
    /\ sp = IdleSP
    /\ msg = "none"
    /\ selected = 0
    /\ lf = IdleLand

NextPattern ==
    \/ move_x_simple
    \/ move_y_simple
    \/ move_z_simple
    \/ move_yz_simple
    \/ sweep_hover
    \/ sweep_leg
    \/ sweep_return
    \/ move_random_xyz
    \/ move_random_limits
    \/ random_hover
    \/ random_calibration
    \/ random_segment
    \/ random_return
    \/ send_abs_pos_verif
    \/ hover_w_del

SpecPattern == InitPattern /\ [][NextPattern]_vars

----------------------------------------------------------------------------
(* Every operation: the methods of a DroneCalibrated object called in any
   order by a client that holds it, or one pattern flown by a paired, airborne
   vehicle; the object with the profile of its constructor or with one a
   set_drone_cal call has given it *)

\* pitch_b = 0.5, the other factors 1.0
HalfBack == [i \in 1..8 |-> IF i = 2 THEN <<1, 2>> ELSE One]

InitFrame ==
    /\ prog \in {"menu", "flight"}
    /\ paired = (prog = "flight")
    /\ takeoff = (prog = "flight")
    /\ calibrated \in BOOLEAN
    /\ cal = (IF calibrated THEN HalfBack ELSE DefaultCal)
    /\ sink = NoSink
    /\ vm = IdleVM
    /\ hv = IdleHV
    /\ mcf = IdleCal
    /\ pat = IdlePat
    /\ airspace = Yard
    /\ err = "none"
    /\ write_datafile = FALSE
    /\ file_writer = NoWriter
    /\ sp = IdleSP
    /\ msg = "none"
    /\ selected = 0
    /\ lf = IdleLand

NextFrame ==
    \/ drone_pair
    \/ drone_takeoff
    \/ drone_takeoff_rest
    \/ drone_land
    \/ drone_land_held
    \/ drone_land_for
    \/ drone_land_rest
    \/ move_cal
    \/ move_cal_trial
    \/ move_cal_rest
    \/ mov_xyz_abs
    \/ xyz_abs_leg
    \/ xyz_abs_return
    \/ move_xyz_simple
    \/ xyz_simple_leg
    \/ move_x_simple
    \/ move_y_simple
    \/ move_z_simple
    \/ move_yz_simple
    \/ sweep_hover
    \/ sweep_leg
    \/ sweep_return
    \/ move_random_xyz
    \/ move_random_limits
    \/ random_hover
    \/ random_calibration
    \/ random_segment
    \/ random_return
    \/ send_abs_pos_verif
    \/ hover_w_del
    \/ send_abs_pos_w_output

SpecFrame == InitFrame /\ [][NextFrame]_vars

----------------------------------------------------------------------------
(* Verified Move on its own, for any request *)

VMStarts == {<<0, 0, 0>>, <<1, 1, 1>>}

InitVM ==
    /\ paired = TRUE
    /\ takeoff = TRUE
    /\ calibrated = FALSE
    /\ cal = DefaultCal
    /\ sink = NoSink
    /\ prog = "verif"
    /\ hv = IdleHV
    /\ mcf = IdleCal
    /\ pat = IdlePat
    /\ airspace = Positions
    /\ err = "none"
    /\ write_datafile = FALSE
    /\ file_writer = NoWriter
    /\ sp = IdleSP
    /\ msg = "none"
    /\ selected = 0
    /\ lf = IdleLand
    /\ \E s \in VMStarts, t \in Positions, d \in 0..MaxDelay, c \in Completes :
          vm = VerifEntry(s, t, 1, d, c)

NextVM == send_abs_pos_verif

SpecVM == InitVM /\ [][NextVM]_vars

\* The same with the default completion fraction, from one start.  The loop
\* runs on one thread that nothing suspends: an iteration that can be taken
\* is taken.
InitVMFair ==
    /\ InitVM
    /\ vm.start = <<0, 0, 0>>
    /\ vm.complete = DefaultComplete

FairSpecVM == InitVMFair /\ [][NextVM]_vars /\ WF_vars(send_abs_pos_verif)

\* A move from the middle of a range twice as wide, the telemetry reporting
\* positions on either side of the start.
Wide == 0..(MaxCoord + 1)
Around == {p \in Wide \X Wide \X Wide : p[1] = 1}

InitMirror ==
    /\ paired = TRUE
    /\ takeoff = TRUE
    /\ calibrated = FALSE
    /\ cal = DefaultCal
    /\ sink = NoSink
    /\ prog = "verif"
    /\ hv = IdleHV
    /\ mcf = IdleCal
    /\ pat = IdlePat
    /\ airspace = Around
    /\ err = "none"
    /\ write_datafile = FALSE
    /\ file_writer = NoWriter
    /\ sp = IdleSP
    /\ msg = "none"
    /\ selected = 0
    /\ lf = IdleLand
    /\ \E t \in Around, d \in 0..MaxDelay, c \in Completes :
          vm = VerifEntry(<<1, 1, 1>>, t, 1, d, c)

SpecMirror == InitMirror /\ [][NextVM]_vars

\* The same move with a telemetry link that can fail on any read.
InitTelemetry ==
    /\ paired = TRUE
    /\ takeoff = TRUE
    /\ calibrated = FALSE
    /\ cal = DefaultCal
    /\ sink = NoSink
    /\ prog = "verif"
    /\ hv = IdleHV
    /\ mcf = IdleCal
    /\ pat = IdlePat
    /\ airspace = Positions \cup {NoTelemetry}
    /\ err = "none"
    /\ write_datafile = FALSE
    /\ file_writer = NoWriter
    /\ sp = IdleSP
    /\ msg = "none"
    /\ selected = 0
    /\ lf = IdleLand
    /\ \E t \in Positions, d \in 0..MaxDelay :
          vm = VerifEntry(<<0, 0, 0>>, t, 1, d, DefaultComplete)

SpecTelemetry == InitTelemetry /\ [][NextVM]_vars

----------------------------------------------------------------------------
(* Hold on its own, for any duration.  The loop runs on one thread that
   nothing suspends: an iteration that can be taken is taken. *)

\* t_hover + t_sleep, in clock ticks: the short ones, and those of the callers
HoverTotals == (0..MaxDelay) \cup {RandomHover, LandHover}

InitHV ==
    /\ paired = TRUE
    /\ takeoff = TRUE
    /\ calibrated = FALSE
    /\ cal = DefaultCal
    /\ sink = NoSink
    /\ prog = "hover"
    /\ vm = IdleVM
    /\ mcf = IdleCal
    /\ pat = IdlePat
    /\ airspace = Positions
    /\ err = "none"
    /\ write_datafile = FALSE
    /\ file_writer = NoWriter
    /\ sp = IdleSP
    /\ msg = "none"
    /\ selected = 0
    /\ lf = IdleLand
    /\ \E p0 \in VMStarts, total \in HoverTotals : hv = HoverEntry(p0, total)

NextHV == hover_w_del

FairSpecHV == InitHV /\ [][NextHV]_vars /\ WF_vars(hover_w_del)

----------------------------------------------------------------------------
(* The Segment Planner on its own, for any request, with and without a csv
   file *)

PlanStarts == {<<0, 0, 0>>, <<1, 1, 1>>}

InitPlan ==
    /\ paired = TRUE
    /\ takeoff = TRUE
    /\ calibrated = FALSE
    /\ cal = DefaultCal
    /\ sink = NoSink
    /\ prog = "plan"
    /\ vm = IdleVM
    /\ hv = IdleHV
    /\ mcf = IdleCal
    /\ pat = IdlePat
    /\ airspace = Positions
    /\ err = "none"
    /\ msg = "none"
    /\ selected = 0
    /\ lf = IdleLand
    /\ write_datafile \in BOOLEAN
    /\ file_writer = (IF write_datafile THEN OpenWriter ELSE NoWriter)
    /\ sp = IdleSP

\* A caller's call of send_abs_pos_w_output, up to the for loop.
plan_call ==
    /\ prog = "plan"
    /\ sp.pc = "idle"
    /\ vm.pc = "idle"
    /\ hv.pc = "idle"
    /\ \E s \in PlanStarts, t \in PlanTargets, v \in PlanVels : sp' = PlanEntry(s, t, v)
    /\ UNCHANGED <<paired, takeoff, calibrated, cal, sink, vm, hv, mcf, pat, airspace,
                   write_datafile, file_writer, prog, err, msg, selected, lf>>

NextPlan ==
    \/ plan_call
    \/ send_abs_pos_w_output

SpecPlan == InitPlan /\ [][NextPlan]_vars

\* The for loop runs on one thread that nothing suspends: a pass that can be
\* made is made.
FairSpecPlan == InitPlan /\ [][NextPlan]_vars /\ WF_vars(send_abs_pos_w_output)

----------------------------------------------------------------------------
(* One call of any of the three movement methods, with and without a csv
   file *)

LogDelays == 0..1
LogTotals == 0..1

\* A caller's call of send_abs_pos_verif, up to the while loop.
verif_call ==
    /\ prog = "plan"
    /\ sp.pc = "idle"
    /\ vm.pc = "idle"
    /\ hv.pc = "idle"
    /\ \E s \in VMStarts, t \in Positions, d \in LogDelays, note \in BOOLEAN :
          vm' = [VerifEntry(s, t, 1, d, DefaultComplete) EXCEPT !.write_note = note]
    /\ UNCHANGED <<paired, takeoff, calibrated, cal, sink, hv, mcf, pat, airspace,
                   write_datafile, file_writer, sp, prog, err, msg, selected, lf>>

\* A caller's call of hover_w_del, up to the while loop.
hover_call ==
    /\ prog = "plan"
    /\ sp.pc = "idle"
    /\ vm.pc = "idle"
    /\ hv.pc = "idle"
    /\ \E p0 \in airspace, total \in LogTotals, note \in BOOLEAN :
          hv' = [HoverEntry(p0, total) EXCEPT !.write_note = note]
    /\ UNCHANGED <<paired, takeoff, calibrated, cal, sink, vm, mcf, pat, airspace,
                   write_datafile, file_writer, sp, prog, err, msg, selected, lf>>

NextLog ==
    \/ plan_call
    \/ verif_call
    \/ hover_call
    \/ send_abs_pos_w_output
    \/ send_abs_pos_verif
    \/ hover_w_del

SpecLog == InitPlan /\ [][NextLog]_vars

----------------------------------------------------------------------------
(* Properties of the Verified Move *)

\* The arrival test on the telemetry of the latest iteration, written out:
\* on each axis the distance moved from start is at least the completion
\* fraction of the distance intended.
ArrivedNow ==
    /\ vm.pc # "idle"
    /\ \A i \in 1..3 :
          LET moved == Abs(vm.tel[i] - vm.start[i])
              intended == Abs(vm.target[i] - vm.start[i])
          IN vm.complete[2] * moved >= vm.complete[1] * intended

TargetCommand == <<"send_absolute_position", vm.target, vm.vel>>

\* C1: send_abs_pos_verif returns only at the end of an iteration on which
\* both conditions hold as evaluated on that iteration: the elapsed time has
\* reached min_delay and the telemetry fetched in that iteration satisfies the
\* arrival test.  Arrival seen on an earlier iteration does not count.
C1_ReturnsOnlyWhenBoth ==
    [][(vm.pc = "loop" /\ vm'.pc = "returned")
          => (vm'.elapsed >= vm'.min_delay /\ ArrivedNow')]_vars

C1_Witness ==
    /\ vm.pc = "returned"
    /\ vm.iteration >= 2
    /\ vm.target # vm.start
    /\ vm.min_delay > 0

\* C2 (as claimed): every Verified Move eventually returns, whatever the
\* telemetry does, as long as the clock advances.
C2_AlwaysTerminates == <>(vm.pc = "returned")

\* C2 (amended): a Verified Move whose telemetry satisfies the arrival test
\* again and again eventually returns (the clock advancing on every
\* iteration); nothing else ends the loop.
C2_TerminatesIfArrives == ([]<>ArrivedNow) => <>(vm.pc = "returned")

C2_Witness ==
    /\ vm.pc = "returned"
    /\ vm.iteration >= 2
    /\ vm.time_expired
    /\ vm.movement_complete

\* C3: an iteration whose telemetry does not satisfy the arrival test never
\* ends the loop, also when min_delay has already elapsed, and every iteration
\* sends the command to the target again.
C3_NoArrivalNoReturn ==
    [][vm.pc = "loop"
          => /\ sink'.last = TargetCommand
             /\ sink'.n = Min(sink.n + 1, MaxCmds)
             /\ (~ArrivedNow' => vm'.pc = "loop")]_vars

C3_Witness ==
    /\ vm.pc = "loop"
    /\ vm.iteration >= 2
    /\ vm.elapsed > vm.min_delay
    /\ ~ArrivedNow
    /\ sink.last = TargetCommand

\* C4: with telemetry that satisfies the arrival test, min_delay = 0 gives
\* exactly one iteration and one command; min_delay = D > 0 gives no return on
\* an iteration whose elapsed time is below D, the command being sent again
\* on each of them.
C4_ArrivedAtOnce ==
    [][(vm.pc = "loop" /\ ArrivedNow')
          => /\ (vm.min_delay = 0 /\ vm.iteration = 0)
                   => (vm'.pc = "returned" /\ vm'.iteration = 1 /\ sink'.n = sink.n + 1)
             /\ vm'.elapsed < vm.min_delay
                   => (vm'.pc = "loop" /\ sink'.last = TargetCommand
                       /\ sink'.n = Min(sink.n + 1, MaxCmds))]_vars

C4_Witness ==
    /\ vm.pc = "loop"
    /\ vm.iteration >= 1
    /\ ArrivedNow
    /\ vm.elapsed < vm.min_delay
    /\ sink.n = vm.iteration
    /\ sink.last = TargetCommand

\* The telemetry read of the iteration just made failed.
ReadFailed == vm.pc # "idle" /\ vm.iteration >= 1 /\ vm.tel = NoTelemetry

\* C21: an iteration of send_abs_pos_verif whose telemetry read fails is
\* skipped and retried: it raises nothing, is not counted as arrived and
\* leaves the loop running; a failure that follows a successful read (or is
\* the first read of the move) does not abort the move.
C21_TelemetryFailureRetried ==
    [][(vm.pc = "loop" /\ vm.tel # NoTelemetry /\ ReadFailed')
          => (vm'.pc = "loop" /\ err' = "none" /\ prog' # "crashed")]_vars

\* The test of one axis, written out.
AxisArrived(i) ==
    vm.complete[2] * Abs(vm.tel[i] - vm.start[i])
        >= vm.complete[1] * Abs(vm.target[i] - vm.start[i])

\* C22: movement_complete is true exactly when each of the three axes on its
\* own satisfies |current - start| >= complete * |target - start|; an axis
\* whose start and target coincide satisfies it at every position, so only
\* the other axes decide, and a move with start = target is arrived on its
\* first telemetry read.
C22_ArrivalPerAxis ==
    (vm.pc \in {"loop", "returned"} /\ vm.iteration >= 1) =>
        /\ vm.movement_complete <=> \A i \in 1..3 : AxisArrived(i)
        /\ vm.movement_complete
              <=> \A i \in {k \in 1..3 : vm.start[k] # vm.target[k]} : AxisArrived(i)
        /\ vm.start = vm.target => vm.movement_complete

C22_Witness ==
    /\ vm.pc = "returned"
    /\ vm.iteration = 1
    /\ vm.start = vm.target
    /\ vm.tel # vm.start
    /\ vm.movement_complete

\* The position as far from s as p is, on the other side of it.
Mirror(p, s) == <<2 * s[1] - p[1], 2 * s[2] - p[2], 2 * s[3] - p[3]>>

\* C28: the arrival test sees the distance from start alone, not the
\* direction: the telemetry position of an iteration satisfies the test
\* exactly when the position displaced from start by the opposite amount does
\* (on each axis alone, and so on all three); a vehicle that is the required
\* fraction of the distance away from start on the side opposite to the target
\* is taken as arrived.
C28_ArrivalIgnoresDirection ==
    (vm.pc \in {"loop", "returned"} /\ vm.iteration >= 1) =>
        /\ \A q \in {vm.tel, Mirror(vm.tel, vm.start)} :
              \A k \in 1..3 :
                  LET one == [vm.start EXCEPT ![k] = q[k]]
                      other == [vm.start EXCEPT ![k] = 2 * vm.start[k] - q[k]]
                      leg == [vm.start EXCEPT ![k] = vm.target[k]]
                  IN MovementComplete(one, vm.start, leg, vm.complete)
                        <=> MovementComplete(other, vm.start, leg, vm.complete)
        /\ vm.movement_complete
              <=> MovementComplete(Mirror(vm.tel, vm.start), vm.start, vm.target, vm.complete)

\* Returned with the vehicle on the far side of start from the target.
C28_Witness ==
    /\ vm.pc = "returned"
    /\ vm.movement_complete
    /\ vm.start = <<1, 1, 1>>
    /\ vm.target = <<1, 0, 1>>
    /\ vm.tel = <<1, 2, 1>>

----------------------------------------------------------------------------
(* Properties of move_cal *)

CalEnded == mcf.pc \in {"returned", "raised"}

\* The mean over the trials of delta_forward / delta_back.
MeanRatio(f, b) ==
    RatDivInt(RatSum([k \in 1..Len(b) |-> Norm(f[k], b[k])]), Len(b))

\* C6: move_cal on a paired, airborne vehicle whose trials all measure a
\* non-zero backward displacement completes with calibrated set, pitch_f = 1.0
\* and pitch_b the mean over the Repeats trials of forward / back.
C6_CalibrationCompletes ==
    (/\ CalEnded
     /\ Len(mcf.back) = Repeats
     /\ \A k \in 1..Len(mcf.back) : mcf.back[k] # 0)
        => /\ err = "none"
           /\ calibrated
           /\ cal[1] = One
           /\ cal[2] = MeanRatio(mcf.forward, mcf.back)

\* C7: in every reachable state all eight calibration factors are strictly
\* positive.
C7_FactorsPositive == \A i \in 1..8 : cal[i][1] > 0 /\ cal[i][2] > 0

\* C8: a trial whose backward displacement is exactly 0 causes no division
\* by zero; it is left out of the average, which the other trials determine.
C8_ZeroBackExcluded ==
    (mcf.pc # "idle" /\ \E k \in 1..Len(mcf.back) : mcf.back[k] = 0)
        => /\ err # "ZeroDivisionError"
           /\ Len(mcf.pitch_b) = Cardinality({k \in 1..Len(mcf.back) : mcf.back[k] # 0})

\* C9: whenever move_cal ends in an error, the eight factors and the
\* calibrated flag have the values they had before the call.
C9_FailureKeepsProfile ==
    mcf.pc = "raised" => (cal = mcf.entry.cal /\ calibrated = mcf.entry.calibrated)

\* C10: move_cal called while not (paired and airborne) returns at once: it
\* sends no command to the vehicle and leaves the factors, the calibrated
\* flag, paired and airborne as they were.
C10_IllegalCalibrationNoEffect ==
    [][(move_cal /\ ~(paired /\ takeoff))
          => (UNCHANGED <<sink, cal, calibrated, paired, takeoff, mcf>> /\ prog' = "menu")]_vars

C10_Witness ==
    /\ paired
    /\ ~takeoff
    /\ sink.last = <<"pair">>
    /\ msg = "The drone must be paired, and must have taken off, before calibration."

\* C26: after a calibration run of move_cal on a paired, airborne vehicle
\* the factors roll_r, roll_l, throttle_u, throttle_d, yaw_cw and yaw_ccw are
\* all 1.0, whatever displacements the trials measured.
C26_OtherFactorsUnity ==
    (CalEnded /\ Len(mcf.back) = Repeats) => \A i \in 3..8 : cal[i] = One

----------------------------------------------------------------------------
(* Properties of the flight state *)

\* C11: in every reachable state of a DroneCalibrated object, after any
\* sequence of its operations, airborne (takeoff) is true only if paired is
\* true.
C11_AirborneOnlyIfPaired == takeoff => paired

C11_Witness ==
    /\ takeoff
    /\ paired
    /\ prog = "menu"
    /\ sink.last = <<"hover", 3>>

\* C12: drone_takeoff called while paired is false sends no command to the
\* vehicle (no set_trim, no takeoff, no position command, no hover: it starts
\* no Verified Move either) and leaves airborne false.
C12_UnpairedTakeoffNoEffect ==
    [][(drone_takeoff /\ ~paired)
          => (UNCHANGED <<sink, vm, hv, paired, takeoff>> /\ ~takeoff' /\ prog' = "menu")]_vars

C12_Witness ==
    /\ ~paired
    /\ ~takeoff
    /\ sink = NoSink
    /\ msg = "Drone must be paired before takeoff"

\* C29: drone_land is not gated by the flight state.  Whatever paired and
\* airborne are, it can be called, and it starts with the Hold of
\* hover_w_del(2, 1), no land command being sent before that loop has
\* returned; then it sends land exactly twice and ends with airborne false
\* and paired as it was; and the Hold does come to its end.
C29_LandAlwaysHoldsThenLands ==
    /\ [](prog = "menu" => ENABLED drone_land)
    /\ [][(prog = "menu" /\ prog' = "land")
            => /\ hv'.pc = "loop" /\ hv'.total = LandHover /\ hv'.iteration = 0
               /\ UNCHANGED <<sink, paired, takeoff>>]_vars
    /\ [][(prog = "land" /\ hv.pc = "loop")
            => /\ sink'.last = <<"send_absolute_position", hv.pos0, HoverVel>>
               /\ hv'.pc = "returned" <=> hv'.elapsed >= LandHover
               /\ UNCHANGED <<paired, takeoff, lf>>]_vars
    /\ [][(prog = "land" /\ sink' # sink /\ sink'.last = <<"land">>)
            => /\ hv.pc = "idle"
               /\ lf'.i = lf.i + 1
               /\ sink' = Issue(sink, <<"land">>)
               /\ UNCHANGED <<paired, takeoff>>]_vars
    /\ [][(prog = "land" /\ prog' # "land")
            => /\ lf.i = 2
               /\ sink.last = <<"land">>
               /\ UNCHANGED sink
               /\ ~takeoff'
               /\ paired' = paired
               /\ prog' = "menu"]_vars
    /\ [](prog = "land" => lf.i <= 2)
    /\ [](prog = "land" => <>(prog = "menu" /\ ~takeoff /\ sink.last = <<"land">>))

\* Landed, after a Hold of several iterations, without ever having paired.
C29_Witness ==
    /\ prog = "menu"
    /\ ~paired
    /\ ~takeoff
    /\ sink.last = <<"land">>
    /\ sink.n = MaxCmds
    /\ msg = "Temperature, Battery"

----------------------------------------------------------------------------
(* Properties of the calibration profile *)

\* The positions of the program inside the operations other than move_cal,
\* and at the call of any operation.
Elsewhere ==
    prog \in {"menu", "takeoff", "land", "xyz_abs", "xyz_simple", "flight", "sweep", "random"}

\* C27: drone_pair, drone_takeoff, drone_land, send_abs_pos_verif,
\* hover_w_del, send_abs_pos_w_output, mov_xyz_abs, move_xyz_simple and every
\* pattern leave the eight calibration factors and the calibrated flag as they
\* are: no step taken at their call or inside them changes either, and a step
\* that does change one of them is the end of move_cal, with its
\* set_drone_cal calls.
C27_OnlyMoveCalChangesProfile ==
    /\ [][Elsewhere => UNCHANGED <<cal, calibrated>>]_vars
    /\ [][(cal' # cal \/ calibrated' # calibrated) => (prog = "cal" /\ move_cal_rest)]_vars

\* A calibrated object that has paired and taken off and is at the end of
\* mov_xyz_abs, its profile as set_drone_cal left it.
C27_Witness ==
    /\ calibrated
    /\ cal = HalfBack
    /\ paired
    /\ takeoff
    /\ prog = "xyz_abs"
    /\ pat.i + 1 = XyzRepeats
    /\ pat.leg = 9
    /\ sp.pc = "returned"
    /\ sink.n = MaxCmds

----------------------------------------------------------------------------
(* Properties of main's menu loop *)

\* option_select hands main an option.
OptionReturned == prog \in {"start", "menu"} /\ prog' # prog

\* C30: every option of 1..6 that option_select returns, the first one
\* entered after the start included, is dispatched to its operation, once,
\* before the next prompt; option 7 ends the loop and no operation is
\* dispatched for it.
C30_EveryOptionDispatched ==
    /\ [][(OptionReturned /\ selected' \in 1..6) => prog' = "case"]_vars
    /\ [][prog = "case"
            => /\ prog' # "case"
               /\ \/ selected = 1 /\ drone_pair
                  \/ selected = 2 /\ drone_takeoff
                  \/ selected = 3 /\ move_cal
                  \/ selected = 4 /\ mov_xyz_abs
                  \/ selected = 5 /\ move_xyz_simple
                  \/ selected = 6 /\ drone_land]_vars
    /\ [][(OptionReturned /\ selected' = 7)
            => /\ prog' = "exit"
               /\ UNCHANGED <<paired, takeoff, calibrated, cal, sink, vm, hv, mcf, pat, sp>>]_vars

----------------------------------------------------------------------------
(* Properties of the Hold *)

HoldCommand == <<"send_absolute_position", hv.pos0, HoverVel>>

----------------------------------------------------------------------------
(* Properties of the Segment Planner *)

PlanDone == sp.pc = "returned"

\* The position of the last command, as three fractions.
AsPoint(p) == <<Norm(p[1], 1), Norm(p[2], 1), Norm(p[3], 1)>>

\* C14: for start # target the displacements from one commanded position to
\* the next (from start to the first) add up to target - start, that is, the
\* last position commanded is the target; for start = target no command is
\* sent.  (Stated for a segment count of 1 or more; a count of 0 is C15.)
C14_PlannerCoversDisplacement ==
    PlanDone =>
        /\ sp.start = sp.target => sink.n = 0
        /\ sp.num_segments >= 1
              => sink.last = <<"send_absolute_position", AsPoint(sp.target), sp.velocity>>

\* C15: when the segment count is 0 for a displacement that is not zero, the
\* target itself is sent as the one command.
C15_ZeroSegmentsIssuesTarget ==
    (PlanDone /\ sp.num_segments = 0 /\ sp.start # sp.target)
        => /\ sink.n = 1
           /\ sink.last = <<"send_absolute_position", AsPoint(sp.target), sp.velocity>>

\* start + (i/n) * (target - start), axis by axis, as a fraction.
Fraction(i, n) ==
    [k \in 1..3 |-> Norm(n * sp.start[k] + i * (sp.target[k] - sp.start[k]), n)]

\* n is the whole number nearest to distance / speed / 0.05.
IsRounded(n) ==
    LET q2 == 64 * DistSq(sp.start, sp.target)      \* (2 * quotient * speed)^2
    IN /\ n = 0 \/ Sq(2 * n - 1) * Sq(sp.velocity) <= q2
       /\ q2 < Sq(2 * n + 1) * Sq(sp.velocity)

\* C23: with n = round(distance(start, target) / speed / 0.05) >= 1 the
\* planner makes n passes, pass i (i = 0..n-1) sending one command, to
\* start + (i/n) * (target - start) with the requested speed, and returns
\* after pass n-1; the arguments alone fix the commands, whatever the
\* telemetry; and every call ends.  (A pass whose writerow raises ends the
\* call there: the passes counted are those of a call that returns.)
C23_PlannerCommands ==
    /\ [](sp.pc # "idle" => IsRounded(sp.num_segments))
    /\ [][sp.pc = "loop"
            => /\ sp.num_segments >= 1 /\ sp.i < sp.num_segments
               /\ sink'.last = <<"send_absolute_position",
                                 Fraction(sp.i, sp.num_segments), sp.velocity>>
               /\ sink'.n = Min(sink.n + 1, MaxCmds)
               /\ sp'.pc # "raised"
                     => /\ sp'.i = sp.i + 1
                        /\ sp'.pc = "returned" <=> sp'.i = sp.num_segments
               /\ <<sp'.start, sp'.target, sp'.velocity, sp'.num_segments>>
                     = <<sp.start, sp.target, sp.velocity, sp.num_segments>>]_vars
    /\ [](PlanDone => sp.i = sp.num_segments)
    /\ [](sp.pc = "loop" => <>(sp.pc \in {"returned", "raised"}))

C23_Witness ==
    /\ PlanDone
    /\ sp.num_segments = 4
    /\ sp.i = 4
    /\ sp.target = <<3, 3, 3>>
    /\ sink.last = <<"send_absolute_position", Fraction(3, 4), sp.velocity>>
    /\ sink.n = MaxCmds

----------------------------------------------------------------------------
(* Properties of the sweeps *)

InSweep == prog = "sweep" /\ pat.name # "none"
InSegment == prog = "random" /\ pat.legs = 3 /\ pat.i >= 1 /\ vm.pc # "idle"
SweepMove == InSweep /\ vm.pc # "idle"

Minus(p, q) == <<p[1] - q[1], p[2] - q[2], p[3] - q[3]>>

RECURSIVE Times(_, _)
Times(seq, k) == IF k = 0 THEN <<>> ELSE seq \o Times(seq, k - 1)

IsPrefix(a, b) == Len(a) <= Len(b) /\ SubSeq(b, 1, Len(a)) = a

\* One cycle of the Y sweep about r with delta d, as the claim lists it.
YCycle(r, d) ==
    LET left == <<r[1], r[2] + d, r[3]>>
        right == <<r[1], r[2] - d, r[3]>>
    IN << <<"send_abs_pos_verif", r, left>>, <<"hover_w_del">>,
          <<"send_abs_pos_verif", left, r>>, <<"hover_w_del">>,
          <<"send_abs_pos_verif", r, right>>, <<"hover_w_del">>,
          <<"send_abs_pos_verif", right, r>>, <<"hover_w_del">> >>

\* C16: move_y_simple with reference (x0, y0, z0), delta del_y and repeats = k
\* makes, k times in a row, exactly the calls Verified Move (reference ->
\* y0 + del_y), Hold, Verified Move (y0 + del_y -> y0), Hold, Verified Move
\* (y0 -> y0 - del_y), Hold, Verified Move (y0 - del_y -> y0), Hold, with x and
\* z at x0 and z0; the start and target each Verified Move tests arrival
\* against are those of its own leg.
C16_YSweepSequence ==
    (pat.name = "move_y_simple") =>
        LET expected == Times(YCycle(pat.ref, pat.given.del), pat.repeats)
            made == Len(pat.calls)
        IN /\ IsPrefix(pat.calls, expected)
           /\ pat.pc = "returned" => pat.calls = expected
           /\ vm.pc # "idle"
                 => expected[made] = <<"send_abs_pos_verif", vm.start, vm.target>>
           /\ hv.pc # "idle" => expected[made] = <<"hover_w_del">>
           /\ pat.pc = "running" => (vm.pc # "idle") # (hv.pc # "idle")

C16_Witness ==
    /\ pat.name = "move_y_simple"
    /\ pat.pc = "returned"
    /\ pat.repeats = 2
    /\ Len(pat.calls) = 16
    /\ prog = "done"

\* The offsets from the reference position a sweep may use: none, and plus
\* and minus its delta along its axis (for the vertical axis the delta is
\* the smaller one of del_z and 0.75 * z0).
SweepOffsets ==
    LET d == pat.given.del
        z == IF 4 * pat.given.del_z < 3 * pat.ref[3]
             THEN 4 * pat.given.del_z ELSE 3 * pat.ref[3]
        along(k) == {o \in (-8..8) \X (-8..8) \X (-8..8) :
                        \A a \in 1..3 : a # k => o[a] = 0}
    IN {<<0, 0, 0>>}
       \cup (IF pat.name = "move_x_simple"
              THEN {o \in along(1) : o[1] \in {d, -d}} ELSE {})
       \cup (IF pat.name \in {"move_y_simple", "move_yz_simple"}
              THEN {o \in along(2) : o[2] \in {d, -d}} ELSE {})
       \cup (IF pat.name \in {"move_z_simple", "move_yz_simple"}
              THEN {o \in along(3) : 4 * o[3] \in {z, -z}} ELSE {})

InCalibrationLeg == prog = "random" /\ pat.i = 0 /\ vm.pc # "idle"

\* The offsets of the three legs that precede the random segments.
CalibrationOffsets == {<<0, 0, 0>>, <<0, pat.limits[3], 0>>, <<0, pat.limits[4], 0>>}

FromReference(offsets) ==
    /\ Minus(vm.start, pat.ref) \in offsets
    /\ Minus(vm.target, pat.ref) \in offsets

\* The reference position of a running pattern is the one read at entry.
ReferenceKept ==
    (prog \in {"sweep", "random"} /\ prog' = prog) => pat'.ref = pat.ref

\* C17 (as claimed): every pattern reads the reference position once at
\* entry, and every start and target it hands to send_abs_pos_verif is the
\* reference plus an offset that no later telemetry has a part in: for a
\* sweep and for the three legs before the random segments an offset the
\* arguments fix, and for the first random segment, which follows the leg back
\* to the reference, the start is the reference.
C17_AllFromReference ==
    /\ [][ReferenceKept]_vars
    /\ [](SweepMove => FromReference(SweepOffsets))
    /\ [](InCalibrationLeg => FromReference(CalibrationOffsets))
    /\ []((InSegment /\ pat.i = 1) => vm.start = pat.ref)

\* C17 (amended): the four sweeps, and both random walks in their three
\* first legs, read the reference position once at entry and hand
\* send_abs_pos_verif starts and targets that are the reference plus offsets
\* the arguments fix; a random segment starts at a position the telemetry
\* reports at that segment (read anew for each one), and its target is that
\* position plus the corrected displacement.
C17_SweepsFromReference ==
    /\ [][ReferenceKept]_vars
    /\ [](SweepMove => FromReference(SweepOffsets))
    /\ [](InCalibrationLeg => FromReference(CalibrationOffsets))
    /\ [](InSegment =>
             /\ vm.start \in airspace
             /\ \E d \in (-1..1) \X (-1..1) \X (-1..1) :
                   vm.target = Plus(vm.start, Corrected(vm.start, d, pat.ref, pat.limits)))

C17_Witness ==
    /\ SweepMove
    /\ pat.name = "move_yz_simple"
    /\ pat.leg = 6
    /\ vm.pc = "loop"
    /\ vm.iteration >= 1
    /\ vm.tel # vm.start
    /\ vm.tel # pat.ref

VerticalSweep == SweepMove /\ pat.name \in {"move_z_simple", "move_yz_simple"}

\* The vertical delta a sweep uses, times 4: the distance of the target of
\* its first vertical leg from the reference height.
UsedDelta4 == 4 * (pat.cycle[Len(pat.cycle) - 3][2][3])

\* C18 (as claimed): in move_z_simple and move_yz_simple the vertical delta
\* used is min(del_z, 0.75 * z0), and for every z0 and every del_z no target
\* handed to send_abs_pos_verif has z below 0.25 * z0.
C18_NoTargetBelowQuarter ==
    VerticalSweep =>
        /\ UsedDelta4 = Min(4 * pat.given.del_z, 3 * pat.ref[3])
        /\ 4 * vm.target[3] >= pat.ref[3]

\* C18 (amended): the vertical delta used is min(del_z, 0.75 * z0), and for
\* z0 >= 0 and del_z >= 0 no target handed to send_abs_pos_verif has z below
\* 0.25 * z0.
C18_NoTargetBelowQuarterIfPositive ==
    VerticalSweep =>
        /\ UsedDelta4 = Min(4 * pat.given.del_z, 3 * pat.ref[3])
        /\ (pat.given.del_z >= 0 /\ pat.ref[3] >= 0) => 4 * vm.target[3] >= pat.ref[3]

C18_Witness ==
    /\ VerticalSweep
    /\ pat.ref[3] = 4
    /\ pat.given.del_z = 5
    /\ vm.target[3] = 1
    /\ vm.pc = "loop"

----------------------------------------------------------------------------
(* Properties of logging *)

\* What a pass through a loop's body does to the vehicle and to the loop.
Control(r, frame) == <<r[frame], r.sink, r.err>>

C20_LogFailureNeverAborts ==
    /\ vm.pc \in {"idle", "loop", "returned"}
    /\ hv.pc \in {"idle", "loop", "returned"}
    /\ (vm.pc # "idle" \/ hv.pc # "idle") => (err = "none" /\ prog # "crashed")

----------------------------------------------------------------------------
(* Properties of the random walks *)

WalkCalls(n) == Times(<<"send_abs_pos_verif", "hover_w_del">>, 3 + n)

\* C25: both random walks first make three send_abs_pos_verif calls along
\* the Y axis alone, to y0 + y_pos, then to y0 + y_neg, then to y0 (x and z
\* those of the reference), one hover_w_del call after each, and only then
\* their random segments, num_segs (segments) of them, each one
\* send_abs_pos_verif call and one hover_w_del call.
C25_CalibrationLegsThenSegments ==
    /\ [](prog = "random" =>
             LET made == Len(pat.calls)
                 r == pat.ref
             IN /\ IsPrefix(pat.calls, WalkCalls(pat.num_segs))
                /\ (vm.pc # "idle") # (hv.pc # "idle")
                /\ vm.pc # "idle" => pat.calls[made] = "send_abs_pos_verif"
                /\ hv.pc # "idle" => pat.calls[made] = "hover_w_del"
                /\ (vm.pc # "idle" /\ made = 1)
                      => vm.target = <<r[1], r[2] + pat.limits[4], r[3]>>
                /\ (vm.pc # "idle" /\ made = 3)
                      => vm.target = <<r[1], r[2] + pat.limits[3], r[3]>>
                /\ (vm.pc # "idle" /\ made = 5) => vm.target = r
                /\ made <= 6 <=> pat.i = 0
                /\ made > 6 => made \in {5 + 2 * pat.i, 6 + 2 * pat.i})
    /\ [][(prog = "random" /\ prog' # "random")
             => (pat.calls = WalkCalls(pat.num_segs) /\ pat.i = pat.num_segs)]_vars

C25_Witness ==
    /\ prog = "random"
    /\ pat.name = "move_random_limits"
    /\ pat.num_segs = 2
    /\ pat.calls = WalkCalls(2)
    /\ hv.pc = "returned"

\* C5: in both random walks the target handed to send_abs_pos_verif for a
\* random segment lies inside the safety box on every axis:
\* ref + neg_limit <= target <= ref + pos_limit.
C5_TargetInBox ==
    InSegment =>
        \A k \in 1..3 :
            /\ pat.ref[k] + pat.limits[2 * k - 1] <= vm.target[k]
            /\ vm.target[k] <= pat.ref[k] + pat.limits[2 * k]

====
